---- MODULE Spec2Model ----
(***************************************************************************)
(* Model of the Cryptnox secure-channel handshake of sdk-arduino:          *)
(* CryptnoxWallet::processCard and the steps it chains (selectApdu,        *)
(* getCardCertificate, extractCardEphemeralKey, openSecureChannel,         *)
(* mutuallyAuthenticate), with the helpers checkStatusWord and the         *)
(* PN532 transport as the nondeterministic environment.                    *)
(*                                                                         *)
(* Buffers are byte sequences of their declared C size (TLA+ index i+1 is  *)
(* C index i).  Uninitialised stack memory is filled with a byte chosen    *)
(* nondeterministically from JunkBytes when the frame is entered.          *)
(***************************************************************************)
EXTENDS Integers, Sequences, FiniteSets, TLC

(* ------------------------------------------------------------------ *)
(* Program constants (CryptnoxWallet.cpp lines 5..17)                  *)
(* ------------------------------------------------------------------ *)
RESPONSE_GETCARDCERTIFICATE_IN_BYTES == 148
RESPONSE_SELECT_IN_BYTES == 26
RESPONSE_OPENSECURECHANNEL_IN_BYTES == 34
RESPONSE_STATUS_WORDS_IN_BYTES == 2
OPENSECURECHANNEL_SALT_IN_BYTES ==
    RESPONSE_OPENSECURECHANNEL_IN_BYTES - RESPONSE_STATUS_WORDS_IN_BYTES
GETCARDCERTIFICATE_IN_BYTES ==
    RESPONSE_GETCARDCERTIFICATE_IN_BYTES - RESPONSE_STATUS_WORDS_IN_BYTES
RANDOM_BYTES == 8
CLIENT_PRIVATE_KEY_SIZE == 32
CLIENT_PUBLIC_KEY_SIZE == 64
CARDEPHEMERALPUBKEY_SIZE == 64

(* extractCardEphemeralKey's local constants *)
keyStart == 9
fullKeyLength == 65
trimmedKeyLength == 64

(* uint8_t arithmetic *)
U8(x) == x % 256

(* The expected success status word, as passed at every call site *)
SW1_OK == 144
SW2_OK == 0

(* ------------------------------------------------------------------ *)
(* Bounds of the model                                                 *)
(* ------------------------------------------------------------------ *)
\* number of processCard invocations explored
MaxCalls == 2
\* longest response buffer of the checkStatusWord unit specification
MaxStatusLen == 3
\* the extractCardEphemeralKey unit specification takes certificates of
\* 74 .. 74 + ExtraCertBytes bytes (and of the full 146)
ExtraCertBytes == 2

(* Bytes that uninitialised stack memory may hold *)
JunkBytes == {0, 165}

(* ------------------------------------------------------------------ *)
(* Memory helpers                                                      *)
(* ------------------------------------------------------------------ *)
\* a buffer of n bytes all equal to b
Fill(n, b) == [i \in 1..n |-> b]

\* memcpy(dst, src, n): the first n bytes of dst are replaced by src's
memcpy(dst, src, n) ==
    [i \in 1..Len(dst) |-> IF i <= n THEN src[i] ELSE dst[i]]

\* A pointer: null, or the memory it points to
NullPtr == [null |-> TRUE, mem |-> <<>>]
Ptr(m) == [null |-> FALSE, mem |-> m]

(* ------------------------------------------------------------------ *)
(* Diagnostic messages (the F("...") lines the steps print)            *)
(* ------------------------------------------------------------------ *)
MsgTooShort == "checkStatusWord: response too short."
MsgExchangeOk == "APDU exchange successful!"
MsgBadStatus == "APDU SW1/SW2 not expected. Error."
MsgSelectFailed == "APDU select failed."
MsgCertFailed == "APDU getCardCertificate failed."
MsgKeyGenFailed == "ECC key generation failed."
MsgBadSize == "Unexpected response size."
MsgOscFailed == "APDU exchange failed."
MsgEcdhOk == "eccSharedSuccessOPC generation ok!"
MsgEcdhFail == "eccSharedSuccessOPC generation fail!"

(* ------------------------------------------------------------------ *)
(* checkStatusWord (CryptnoxWallet.cpp 346..375)                       *)
(* Returns the boolean result, the set of C indices of the response    *)
(* that were read, and the messages printed.                           *)
(* ------------------------------------------------------------------ *)
\* Faulty variant: the length guard is off by one (responseLength < 1), so a
\* one-byte response is indexed at responseLength - 2 = -1.
checkStatusWordRun_GuardOffByOne(response, responseLength, sw1Expected, sw2Expected) ==
    IF response.null \/ responseLength < 1
    THEN [ret |-> FALSE, reads |-> {}, diag |-> <<MsgTooShort>>]
    ELSE LET at(k) == IF k + 1 \in DOMAIN response.mem THEN response.mem[k + 1] ELSE 0
             sw1 == at(responseLength - 2)
             sw2 == at(responseLength - 1)
         IN  [ret |-> (sw1 = sw1Expected) /\ (sw2 = sw2Expected),
              reads |-> {responseLength - 2, responseLength - 1},
              diag |-> <<>>]

\* Faulty variant: only SW1 is compared.
checkStatusWordRun_Sw1Only(response, responseLength, sw1Expected, sw2Expected) ==
    IF response.null \/ responseLength < 2
    THEN [ret |-> FALSE, reads |-> {}, diag |-> <<MsgTooShort>>]
    ELSE [ret |-> response.mem[responseLength - 2 + 1] = sw1Expected,
          reads |-> {responseLength - 2},
          diag |-> <<>>]

checkStatusWordRun(response, responseLength, sw1Expected, sw2Expected) ==
    IF response.null \/ responseLength < 2
    THEN [ret |-> FALSE, reads |-> {}, diag |-> <<MsgTooShort>>]
    ELSE LET sw1 == response.mem[responseLength - 2 + 1]
             sw2 == response.mem[responseLength - 1 + 1]
         IN  [ret |-> IF (sw1 = sw1Expected) /\ (sw2 = sw2Expected)
                      THEN TRUE ELSE FALSE,
              reads |-> {responseLength - 2, responseLength - 1},
              diag |-> <<>>]

checkStatusWord(response, responseLength, sw1Expected, sw2Expected) ==
    checkStatusWordRun(response, responseLength, sw1Expected, sw2Expected).ret

(* ------------------------------------------------------------------ *)
(* extractCardEphemeralKey (CryptnoxWallet.cpp 394..431)               *)
(* cardCertificate, cardEphemeralPubKey, fullEphemeralKey65 are        *)
(* pointers.  The result holds the return value, the memory of the two *)
(* output buffers after the call, and the certificate indices read.    *)
(* ------------------------------------------------------------------ *)
\* The for loop (lines 406..425).  Iteration i (0 <= i < fullKeyLength)
\* reads b = cardCertificate[keyStart + i], stores it at
\* fullEphemeralKey65[i] when that pointer is not null, and at
\* cardEphemeralPubKey[i - 1] when i > 0.  Every iteration writes cells
\* of its own, so the loop's effect is given cell by cell.
extractLoop(cardCertificate, key, full) ==
    LET iterations == 0..(fullKeyLength - 1)
        b(i) == cardCertificate.mem[(keyStart + i) + 1]
    IN  [key |-> [c \in DOMAIN key |->
                    \* C cell c - 1 is written by iteration i = c
                    IF c \in iterations /\ c > 0 THEN b(c) ELSE key[c]],
         full |-> IF ~full.null
                  THEN Ptr([c \in DOMAIN full.mem |->
                            \* C cell c - 1 is written by iteration i = c - 1
                            IF (c - 1) \in iterations THEN b(c - 1)
                            ELSE full.mem[c]])
                  ELSE full,
         reads |-> {keyStart + i : i \in iterations}]

\* Faulty variant: the 0x04 prefix is not skipped (the trimmed key starts at
\* certificate byte 9 instead of 10).
extractCardEphemeralKey_PrefixKept(cardCertificate, cardEphemeralPubKey, fullEphemeralKey65) ==
    IF cardCertificate.null \/ cardEphemeralPubKey.null
    THEN [ret |-> FALSE, key |-> cardEphemeralPubKey, full |-> fullEphemeralKey65,
          cert |-> cardCertificate, reads |-> {}]
    ELSE [ret |-> FALSE,
          key |-> Ptr([k \in 1..Len(cardEphemeralPubKey.mem) |->
                         IF k <= trimmedKeyLength
                         THEN cardCertificate.mem[keyStart + k]
                         ELSE cardEphemeralPubKey.mem[k]]),
          full |-> IF fullEphemeralKey65.null THEN fullEphemeralKey65
                   ELSE Ptr([k \in 1..Len(fullEphemeralKey65.mem) |->
                         IF k <= fullKeyLength
                         THEN cardCertificate.mem[keyStart + k]
                         ELSE fullEphemeralKey65.mem[k]]),
          cert |-> cardCertificate,
          reads |-> {keyStart + k : k \in 0..(fullKeyLength - 1)}]

extractCardEphemeralKey(cardCertificate, cardEphemeralPubKey, fullEphemeralKey65) ==
    IF cardCertificate.null \/ cardEphemeralPubKey.null
    THEN [ret |-> FALSE, key |-> cardEphemeralPubKey, full |-> fullEphemeralKey65,
          cert |-> cardCertificate, reads |-> {}]
    ELSE LET r == extractLoop(cardCertificate, cardEphemeralPubKey.mem,
                              fullEphemeralKey65)
         IN  \* ret is never set to true on this path (line 395, 430)
             \* the certificate is only read (const uint8_t*)
             [ret |-> FALSE, key |-> Ptr(r.key), full |-> r.full,
              cert |-> cardCertificate, reads |-> r.reads]

(* ------------------------------------------------------------------ *)
(* Entropy: randomSeed(analogRead(0)) and random(0, 256)               *)
(* (called at CryptnoxWallet.cpp 149..151, 202, 305..310).  The        *)
(* generator is the AVR core's: randomSeed ignores a zero seed; random *)
(* is the Park-Miller generator computed by Schrage's method, whose    *)
(* state is process-wide.                                              *)
(* ------------------------------------------------------------------ *)
\* values analogRead(0) may return
AnalogValues == {0, 417}

randomSeed(state, seed) == IF seed # 0 THEN seed ELSE state

\* one step of the generator: the new state (also the value drawn)
randomNext(state) ==
    LET x == IF state = 0 THEN 123459876 ELSE state
        hi == x \div 127773
        lo == x % 127773
        t == 16807 * lo - 2836 * hi
    IN  IF t < 0 THEN t + 2147483647 ELSE t

\* n calls of random(0, 256): the bytes drawn and the state left
RECURSIVE randomBytes(_, _)
randomBytes(state, n) ==
    IF n = 0
    THEN [bytes |-> <<>>, state |-> state]
    ELSE LET s1 == randomNext(state)
             rest == randomBytes(s1, n - 1)
         IN  [bytes |-> <<s1 % 256>> \o rest.bytes, state |-> rest.state]

\* uECC_RNG(dest, size): fills dest with size random bytes
uECC_RNG(state, size) == randomBytes(state, size)

(* ------------------------------------------------------------------ *)
(* micro-ecc primitives, as the handshake uses them.  The public key   *)
(* is a fixed function of the private scalar (a stand-in for the curve *)
(* multiplication: only its determinism and its length are used).      *)
(* ------------------------------------------------------------------ *)
PublicKeyOf(priv) ==
    [i \in 1..CLIENT_PUBLIC_KEY_SIZE |->
        U8(priv[((i - 1) % CLIENT_PRIVATE_KEY_SIZE) + 1] * 7 + i)]

\* uECC_make_key(public, private, curve): on success both buffers are
\* written; on failure neither is.
uECC_make_key(publicKey, privateKey, state, eccSuccess) ==
    LET r == uECC_RNG(state, CLIENT_PRIVATE_KEY_SIZE)
    IN  IF eccSuccess
        THEN [ok |-> TRUE, privateKey |-> r.bytes,
              publicKey |-> PublicKeyOf(r.bytes), state |-> r.state]
        ELSE [ok |-> FALSE, privateKey |-> privateKey,
              publicKey |-> publicKey, state |-> r.state]

(* ------------------------------------------------------------------ *)
(* Transport: driver.sendAPDU(apdu, len, response, responseLength)     *)
(* (PN532I2C.cpp 67..94).  An outcome t is a failure, or a success     *)
(* with the bytes received (never more than the buffer holds).         *)
(* ------------------------------------------------------------------ *)
sendAPDU(response, responseLength, t) ==
    IF ~t.ok
    THEN [success |-> FALSE, response |-> response,
          responseLength |-> responseLength]
    ELSE [success |-> TRUE,
          response |-> memcpy(response, t.data, Len(t.data)),
          responseLength |-> Len(t.data)]

\* bytes (a + b*i) for C index i < n
Pattern(n, a, b) == [i \in 1..n |-> U8(a + b * (i - 1))]

\* a response of total length len: data pattern then the status word
Resp(len, a, b, sw) ==
    IF len >= 2 THEN Pattern(len - 2, a, b) \o sw ELSE Pattern(len, a, b)

StatusWords == {<<144, 0>>, <<106, 130>>}

TransportFailure == [ok |-> FALSE, data |-> <<>>]

SelectOutcomes ==
    {TransportFailure} \cup
    {[ok |-> TRUE, data |-> Resp(len, 111, 0, sw)] :
        len \in {0, 1, 2, RESPONSE_SELECT_IN_BYTES}, sw \in StatusWords}

CertOutcomes ==
    {TransportFailure} \cup
    {[ok |-> TRUE, data |-> Resp(len, 1, 1, sw)] :
        len \in {1, 2, 10, 75, 76, RESPONSE_GETCARDCERTIFICATE_IN_BYTES},
        sw \in StatusWords} \cup
    {[ok |-> TRUE,
      data |-> Resp(RESPONSE_GETCARDCERTIFICATE_IN_BYTES, 67, 5, sw)] :
        sw \in StatusWords}

OscOutcomes ==
    {TransportFailure} \cup
    {[ok |-> TRUE, data |-> Resp(len, 200, 3, sw)] :
        len \in {1, 30, RESPONSE_OPENSECURECHANNEL_IN_BYTES},
        sw \in StatusWords}

(* ------------------------------------------------------------------ *)
(* selectApdu (CryptnoxWallet.cpp 78..113)                             *)
(* ------------------------------------------------------------------ *)
SELECT_APDU == <<0, 164, 4, 0, 7, 160, 0, 0, 16, 0, 1, 18>>

MsgSendingSelect == "Sending Select APDU..."
MsgSendingCert == "Sending getCardCertificate APDU..."
MsgSendingOsc == "Sending OpenSecureChannel APDU..."

\* Faulty variant: the status word is not checked (any completed exchange
\* counts as success, as in the example sketch's selectApdu).
selectApdu_NoStatusCheck(t, junk) ==
    LET x == sendAPDU(Fill(RESPONSE_SELECT_IN_BYTES, junk),
                      RESPONSE_SELECT_IN_BYTES, t)
    IN  [ret |-> x.success, apdu |-> SELECT_APDU,
         diag |-> <<MsgSendingSelect>>]

selectApdu(t, junk) ==
    LET response0 == Fill(RESPONSE_SELECT_IN_BYTES, junk)
        x == sendAPDU(response0, RESPONSE_SELECT_IN_BYTES, t)
        cs == checkStatusWordRun(Ptr(x.response), x.responseLength, SW1_OK, SW2_OK)
    IN  IF x.success
        THEN IF cs.ret
             THEN [ret |-> TRUE, apdu |-> SELECT_APDU,
                   diag |-> <<MsgSendingSelect>> \o cs.diag \o <<MsgExchangeOk>>]
             ELSE [ret |-> FALSE, apdu |-> SELECT_APDU,
                   diag |-> <<MsgSendingSelect>> \o cs.diag \o <<MsgBadStatus>>]
        ELSE [ret |-> FALSE, apdu |-> SELECT_APDU,
              diag |-> <<MsgSendingSelect, MsgSelectFailed>>]

(* ------------------------------------------------------------------ *)
(* getCardCertificate (CryptnoxWallet.cpp 132..184)                    *)
(* cardCertificate is a pointer; cardCertificateLength a reference.    *)
(* ------------------------------------------------------------------ *)
GETCARDCERTIFICATE_HEADER == <<128, 248, 0, 0, 8>>

\* Faulty variant: the response is copied out before its status word is
\* examined.
getCardCertificate_CopyBeforeCheck(cardCertificate, cardCertificateLength, state, seed, t, junk) ==
    IF cardCertificate.null
    THEN [ret |-> FALSE, sent |-> FALSE, apdu |-> <<>>,
          cardCertificate |-> cardCertificate,
          cardCertificateLength |-> cardCertificateLength,
          state |-> state, diag |-> <<>>]
    ELSE LET r == randomBytes(randomSeed(state, seed), RANDOM_BYTES)
             fullApdu == GETCARDCERTIFICATE_HEADER \o r.bytes
             response0 == Fill(RESPONSE_GETCARDCERTIFICATE_IN_BYTES, junk)
             x == sendAPDU(response0, RESPONSE_GETCARDCERTIFICATE_IN_BYTES, t)
             cs == checkStatusWordRun(Ptr(x.response), x.responseLength, SW1_OK, SW2_OK)
             newLength == U8(x.responseLength - RESPONSE_STATUS_WORDS_IN_BYTES)
         IN  IF x.success
             THEN [ret |-> cs.ret, sent |-> TRUE, apdu |-> fullApdu,
                   cardCertificate |->
                       Ptr(memcpy(cardCertificate.mem, x.response, newLength)),
                   cardCertificateLength |-> newLength,
                   state |-> r.state,
                   diag |-> <<MsgSendingCert>> \o cs.diag]
             ELSE [ret |-> FALSE, sent |-> TRUE, apdu |-> fullApdu,
                   cardCertificate |-> cardCertificate,
                   cardCertificateLength |-> cardCertificateLength,
                   state |-> r.state,
                   diag |-> <<MsgSendingCert, MsgCertFailed>>]

\* Faulty variant: the response is accepted only if it echoes the nonce.
getCardCertificate_NonceCompared(cardCertificate, cardCertificateLength, state, seed, t, junk) ==
    IF cardCertificate.null
    THEN [ret |-> FALSE, sent |-> FALSE, apdu |-> <<>>,
          cardCertificate |-> cardCertificate,
          cardCertificateLength |-> cardCertificateLength,
          state |-> state, diag |-> <<>>]
    ELSE LET r == randomBytes(randomSeed(state, seed), RANDOM_BYTES)
             fullApdu == GETCARDCERTIFICATE_HEADER \o r.bytes
             response0 == Fill(RESPONSE_GETCARDCERTIFICATE_IN_BYTES, junk)
             x == sendAPDU(response0, RESPONSE_GETCARDCERTIFICATE_IN_BYTES, t)
             cs == checkStatusWordRun(Ptr(x.response), x.responseLength, SW1_OK, SW2_OK)
             newLength == U8(x.responseLength - RESPONSE_STATUS_WORDS_IN_BYTES)
         IN  IF x.success /\ cs.ret /\ Len(t.data) > RANDOM_BYTES
                /\ SubSeq(t.data, 2, RANDOM_BYTES + 1) = r.bytes
             THEN [ret |-> TRUE, sent |-> TRUE, apdu |-> fullApdu,
                   cardCertificate |->
                       Ptr(memcpy(cardCertificate.mem, x.response, newLength)),
                   cardCertificateLength |-> newLength,
                   state |-> r.state,
                   diag |-> <<MsgSendingCert>> \o cs.diag \o <<MsgExchangeOk>>]
             ELSE [ret |-> FALSE, sent |-> TRUE, apdu |-> fullApdu,
                   cardCertificate |-> cardCertificate,
                   cardCertificateLength |-> cardCertificateLength,
                   state |-> r.state,
                   diag |-> IF x.success
                            THEN <<MsgSendingCert>> \o cs.diag \o <<MsgBadStatus>>
                            ELSE <<MsgSendingCert, MsgCertFailed>>]

getCardCertificate(cardCertificate, cardCertificateLength, state, seed, t, junk) ==
    IF cardCertificate.null
    THEN [ret |-> FALSE, sent |-> FALSE, apdu |-> <<>>,
          cardCertificate |-> cardCertificate,
          cardCertificateLength |-> cardCertificateLength,
          state |-> state, diag |-> <<>>]
    ELSE LET r == randomBytes(randomSeed(state, seed), RANDOM_BYTES)
             fullApdu == GETCARDCERTIFICATE_HEADER \o r.bytes
             response0 == Fill(RESPONSE_GETCARDCERTIFICATE_IN_BYTES, junk)
             x == sendAPDU(response0, RESPONSE_GETCARDCERTIFICATE_IN_BYTES, t)
             cs == checkStatusWordRun(Ptr(x.response), x.responseLength, SW1_OK, SW2_OK)
             newLength == U8(x.responseLength - RESPONSE_STATUS_WORDS_IN_BYTES)
         IN  IF x.success /\ cs.ret
             THEN [ret |-> TRUE, sent |-> TRUE, apdu |-> fullApdu,
                   cardCertificate |->
                       Ptr(memcpy(cardCertificate.mem, x.response, newLength)),
                   cardCertificateLength |-> newLength,
                   state |-> r.state,
                   diag |-> <<MsgSendingCert>> \o cs.diag \o <<MsgExchangeOk>>]
             ELSE [ret |-> FALSE, sent |-> TRUE, apdu |-> fullApdu,
                   cardCertificate |-> cardCertificate,
                   cardCertificateLength |-> cardCertificateLength,
                   state |-> r.state,
                   diag |-> IF x.success
                            THEN <<MsgSendingCert>> \o cs.diag \o <<MsgBadStatus>>
                            ELSE <<MsgSendingCert, MsgCertFailed>>]

(* ------------------------------------------------------------------ *)
(* openSecureChannel (CryptnoxWallet.cpp 198..262)                     *)
(* ------------------------------------------------------------------ *)
\* Faulty variant: Lc counts the key but not the format byte.
OPC_APDU_HEADER_LcWithoutFormat == <<128, 16, 255, 0, 64, 4>>

OPC_APDU_HEADER == <<128, 16, 255, 0, 65, 4>>

\* Faulty variant: the response size is not checked.
openSecureChannelExchange_NoSizeCheck(salt, k, t, junk) ==
    LET fullApdu == OPC_APDU_HEADER \o k.publicKey
        x == sendAPDU(Fill(RESPONSE_OPENSECURECHANNEL_IN_BYTES, junk),
                      RESPONSE_OPENSECURECHANNEL_IN_BYTES, t)
        cs == checkStatusWordRun(Ptr(x.response), x.responseLength, SW1_OK, SW2_OK)
    IN  IF x.success /\ cs.ret
        THEN [ret |-> TRUE, sent |-> TRUE, apdu |-> fullApdu,
              salt |-> memcpy(salt, x.response, OPENSECURECHANNEL_SALT_IN_BYTES),
              diag |-> <<MsgSendingOsc>> \o cs.diag \o <<MsgExchangeOk>>]
        ELSE [ret |-> FALSE, sent |-> TRUE, apdu |-> fullApdu, salt |-> salt,
              diag |-> IF x.success
                       THEN <<MsgSendingOsc>> \o cs.diag \o <<MsgBadStatus>>
                       ELSE <<MsgSendingOsc, MsgOscFailed>>]

\* Faulty variant: the salt is copied out before the response is examined.
openSecureChannelExchange_SaltCopiedFirst(salt, k, t, junk) ==
    LET fullApdu == OPC_APDU_HEADER \o k.publicKey
        x == sendAPDU(Fill(RESPONSE_OPENSECURECHANNEL_IN_BYTES, junk),
                      RESPONSE_OPENSECURECHANNEL_IN_BYTES, t)
        cs == checkStatusWordRun(Ptr(x.response), x.responseLength, SW1_OK, SW2_OK)
        ok == x.success /\ cs.ret
                /\ x.responseLength = RESPONSE_OPENSECURECHANNEL_IN_BYTES
    IN  [ret |-> ok, sent |-> TRUE, apdu |-> fullApdu,
         salt |-> IF x.success
                  THEN memcpy(salt, x.response, OPENSECURECHANNEL_SALT_IN_BYTES)
                  ELSE salt,
         diag |-> <<MsgSendingOsc>>]

\* the part after a successful key generation (lines 212..259);
\* k is uECC_make_key's result
openSecureChannelExchange(salt, k, t, junk) ==
    LET fullApdu == OPC_APDU_HEADER \o k.publicKey
        response0 == Fill(RESPONSE_OPENSECURECHANNEL_IN_BYTES, junk)
        x == sendAPDU(response0, RESPONSE_OPENSECURECHANNEL_IN_BYTES, t)
        cs == checkStatusWordRun(Ptr(x.response), x.responseLength, SW1_OK, SW2_OK)
    IN  IF x.success
        THEN IF cs.ret
             THEN IF x.responseLength = RESPONSE_OPENSECURECHANNEL_IN_BYTES
                  THEN [ret |-> TRUE, sent |-> TRUE, apdu |-> fullApdu,
                        salt |-> memcpy(salt, x.response,
                                        OPENSECURECHANNEL_SALT_IN_BYTES),
                        diag |-> <<MsgSendingOsc>> \o cs.diag \o <<MsgExchangeOk>>]
                  ELSE [ret |-> FALSE, sent |-> TRUE, apdu |-> fullApdu,
                        salt |-> salt,
                        diag |-> <<MsgSendingOsc>> \o cs.diag \o <<MsgBadSize>>]
             ELSE [ret |-> FALSE, sent |-> TRUE, apdu |-> fullApdu, salt |-> salt,
                   diag |-> <<MsgSendingOsc>> \o cs.diag \o <<MsgBadStatus>>]
        ELSE [ret |-> FALSE, sent |-> TRUE, apdu |-> fullApdu, salt |-> salt,
              diag |-> <<MsgSendingOsc, MsgOscFailed>>]

\* Faulty variant: the result of the key generation is ignored.
openSecureChannel_KeyGenIgnored(salt, clientPublicKey, clientPrivateKey, state, seed, eccSuccess, t, junk) ==
    LET k == uECC_make_key(clientPublicKey, clientPrivateKey,
                           randomSeed(state, seed), eccSuccess)
        e == openSecureChannelExchange(salt, k, t, junk)
    IN  [ret |-> e.ret, sent |-> e.sent, apdu |-> e.apdu, salt |-> e.salt,
         clientPublicKey |-> k.publicKey,
         clientPrivateKey |-> k.privateKey,
         state |-> k.state,
         diag |-> IF k.ok THEN e.diag ELSE <<MsgKeyGenFailed>> \o e.diag]

\* Faulty variant: the command is built from the caller's buffer as it was
\* before the key generation.
openSecureChannel_SendsOldKey(salt, clientPublicKey, clientPrivateKey, state, seed, eccSuccess, t, junk) ==
    LET k == uECC_make_key(clientPublicKey, clientPrivateKey,
                           randomSeed(state, seed), eccSuccess)
        e == openSecureChannelExchange(salt, [k EXCEPT !.publicKey = clientPublicKey],
                                       t, junk)
    IN  IF ~k.ok
        THEN [ret |-> FALSE, sent |-> FALSE, apdu |-> <<>>, salt |-> salt,
              clientPublicKey |-> k.publicKey,
              clientPrivateKey |-> k.privateKey,
              state |-> k.state, diag |-> <<MsgKeyGenFailed>>]
        ELSE [ret |-> e.ret, sent |-> e.sent, apdu |-> e.apdu, salt |-> e.salt,
              clientPublicKey |-> k.publicKey,
              clientPrivateKey |-> k.privateKey,
              state |-> k.state, diag |-> e.diag]

openSecureChannel(salt, clientPublicKey, clientPrivateKey, state, seed, eccSuccess, t, junk) ==
    LET k == uECC_make_key(clientPublicKey, clientPrivateKey,
                           randomSeed(state, seed), eccSuccess)
        e == openSecureChannelExchange(salt, k, t, junk)
    IN  IF ~k.ok
        THEN [ret |-> FALSE, sent |-> FALSE, apdu |-> <<>>, salt |-> salt,
              clientPublicKey |-> k.publicKey,
              clientPrivateKey |-> k.privateKey,
              state |-> k.state, diag |-> <<MsgKeyGenFailed>>]
        ELSE [ret |-> e.ret, sent |-> e.sent, apdu |-> e.apdu, salt |-> e.salt,
              clientPublicKey |-> k.publicKey,
              clientPrivateKey |-> k.privateKey,
              state |-> k.state, diag |-> e.diag]

(* ------------------------------------------------------------------ *)
(* mutuallyAuthenticate (CryptnoxWallet.cpp 277..295)                  *)
(* uECC_shared_secret(public_key, private_key, secret, curve) reads 64 *)
(* bytes at public_key and 32 bytes at private_key.  The call on line  *)
(* 286 passes cardEphemeralPubKey and clientPublicKey.                 *)
(* ------------------------------------------------------------------ *)
\* Faulty variant: ret is never set, as in extractCardEphemeralKey.
mutuallyAuthenticate_RetNeverSet(salt, clientPublicKey, clientPrivateKey, cardEphemeralPubKey, eccSharedSuccessOPC) ==
    [ret |-> FALSE,
     ecdh |-> [publicArg |-> "cardEphemeralPubKey",
               privateArg |-> "clientPublicKey",
               public_key |-> SubSeq(cardEphemeralPubKey, 1,
                                     CARDEPHEMERALPUBKEY_SIZE),
               private_key |-> SubSeq(clientPublicKey, 1,
                                      CLIENT_PRIVATE_KEY_SIZE)],
     diag |-> IF eccSharedSuccessOPC THEN <<MsgEcdhOk>> ELSE <<MsgEcdhFail>>]

mutuallyAuthenticate(salt, clientPublicKey, clientPrivateKey, cardEphemeralPubKey, eccSharedSuccessOPC) ==
    [ret |-> eccSharedSuccessOPC,
     ecdh |-> [publicArg |-> "cardEphemeralPubKey",
               privateArg |-> "clientPublicKey",
               public_key |-> SubSeq(cardEphemeralPubKey, 1,
                                     CARDEPHEMERALPUBKEY_SIZE),
               private_key |-> SubSeq(clientPublicKey, 1,
                                      CLIENT_PRIVATE_KEY_SIZE)],
     diag |-> IF eccSharedSuccessOPC THEN <<MsgEcdhOk>> ELSE <<MsgEcdhFail>>]

(* ================================================================== *)
(* State                                                               *)
(* ================================================================== *)
VARIABLES
    pc,                     \* position in processCard ("idle": not running)
    results,                \* return values of the completed invocations
    rngState,               \* state of the process-wide generator
    \* processCard's frame (lines 25..35)
    ret,
    stackFill,              \* what uninitialised memory of this frame holds
    cardCertificate,
    cardCertificateLength,
    openSecureChannelSalt,
    clientPrivateKey,
    clientPublicKey,
    cardEphemeralPubKey,
    \* what the current invocation has done so far
    exch,                   \* exchanges handed to the transport, in order
    stepRet,                \* return value of each step ("notrun" if not called)
    ecdhCalls,              \* invocations of uECC_shared_secret
    extractReads,           \* certificate indices read by the key extraction
    diag,                   \* messages printed by the steps
    uidReads,               \* number of driver.readUID calls
    steps,                  \* the steps performed, in order
    inputsSeen,             \* what the environment supplied, in order
    \* successive invocations
    study,                  \* which inputs are explored (fixed by Init)
    prev,                   \* the invocation before this one, if remembered
    \* unit harnesses of the two pure helpers
    csArgs, csResult,       \* checkStatusWord
    exArgs, exResult,       \* extractCardEphemeralKey
    gcArgs, gcResult,       \* getCardCertificate
    \* processCard seen from the transport: calls into driver.sendAPDU
    xpc,                    \* position of the caller ("off": not modelled)
    wire,                   \* commands handed over and answers returned, in order
    outstanding,            \* commands handed over and not yet answered
    xdone,                  \* invocations completed
    \* the example sketches
    sketch,                 \* which sketch runs ("none": not modelled)
    spc,                    \* position in setup / PN532I2C::begin / loop
    versiondata,            \* begin's local (line 24)
    beginRet,               \* what begin returned
    devLog,                 \* operations performed on the PN532, in order
    polls                   \* iterations of loop completed

frameVars == <<ret, stackFill, cardCertificate, cardCertificateLength,
               openSecureChannelSalt, clientPrivateKey, clientPublicKey,
               cardEphemeralPubKey>>
histVars == <<exch, stepRet, ecdhCalls, extractReads, diag, uidReads,
              steps, inputsSeen>>
cardVars == <<pc, results, rngState, frameVars, histVars, study, prev>>
certVars == <<gcArgs, gcResult>>
exchangeVars == <<xpc, wire, outstanding, xdone>>
sketchVars == <<sketch, spc, versiondata, beginRet, devLog, polls>>
unitVars == <<csArgs, csResult, exArgs, exResult, certVars, exchangeVars,
              sketchVars>>
vars == <<cardVars, unitVars>>

B2S(b) == IF b THEN "true" ELSE "false"

\* the messages msgs, each marked with the step that printed it
Printed(step, msgs) == [i \in 1..Len(msgs) |-> [step |-> step, msg |-> msgs[i]]]

NoSteps == [select |-> "notrun", getcert |-> "notrun", extract |-> "notrun",
            osc |-> "notrun", mutauth |-> "notrun"]

\* no invocation is running: there is no frame and no history
NoFrame ==
    /\ ret = FALSE
    /\ stackFill = 0
    /\ cardCertificate = <<>>
    /\ cardCertificateLength = 0
    /\ openSecureChannelSalt = <<>>
    /\ clientPrivateKey = <<>>
    /\ clientPublicKey = <<>>
    /\ cardEphemeralPubKey = <<>>
    /\ exch = <<>>
    /\ stepRet = NoSteps
    /\ ecdhCalls = <<>>
    /\ extractReads = {}
    /\ diag = <<>>
    /\ uidReads = 0
    /\ steps = <<>>
    /\ inputsSeen = <<>>

\* one thing the environment supplied to a step
Input(kind, step, ok, data) ==
    [kind |-> kind, step |-> step, ok |-> ok, data |-> data]

\* the five buffers of processCard's frame (lines 26..33)
FrameOf(cert, salt, priv, pub, cardKey) ==
    [cardCertificate |-> cert, openSecureChannelSalt |-> salt,
     clientPrivateKey |-> priv, clientPublicKey |-> pub,
     cardEphemeralPubKey |-> cardKey]

\* no earlier invocation is remembered
NoPrev ==
    [valid |-> FALSE, ret |-> FALSE, exch |-> <<>>, stepRet |-> NoSteps,
     ecdhCalls |-> <<>>, inputsSeen |-> <<>>,
     frame |-> FrameOf(<<>>, <<>>, <<>>, <<>>, <<>>)]

\* getCardCertificate is not under test
NoCert ==
    /\ gcArgs = [cardCertificate |-> NullPtr, cardCertificateLength |-> 0,
                 t |-> TransportFailure, junk |-> 0]
    /\ gcResult = [done |-> FALSE, ret |-> FALSE, cardCertificate |-> NullPtr,
                   cardCertificateLength |-> 0]

\* the transport view of processCard is not modelled
NoExchange ==
    /\ xpc = "off"
    /\ wire = <<>>
    /\ outstanding = 0
    /\ xdone = 0

\* no sketch runs
NoSketch ==
    /\ sketch = "none"
    /\ spc = "off"
    /\ versiondata = 0
    /\ beginRet = FALSE
    /\ devLog = <<>>
    /\ polls = 0

\* the two helpers are not under test
NoHelper ==
    /\ csArgs = [response |-> NullPtr, responseLength |-> 0,
                 sw1Expected |-> 0, sw2Expected |-> 0]
    /\ csResult = [done |-> FALSE, ret |-> FALSE, reads |-> {}]
    /\ exArgs = [cardCertificate |-> NullPtr, cardEphemeralPubKey |-> NullPtr,
                 fullEphemeralKey65 |-> NullPtr]
    /\ exResult = [done |-> FALSE, ret |-> FALSE, key |-> NullPtr,
                   full |-> NullPtr, cert |-> NullPtr, reads |-> {}]

NoUnit ==
    /\ NoHelper
    /\ NoCert
    /\ NoExchange
    /\ NoSketch

CardIdle ==
    /\ pc = "idle"
    /\ results = <<>>
    /\ rngState = 1
    /\ prev = NoPrev
    /\ NoFrame

Init == CardIdle /\ study = "handshake" /\ NoUnit

(* ================================================================== *)
(* processCard (CryptnoxWallet.cpp 24..65), one action per step        *)
(* ================================================================== *)
\* The study of successive invocations remembers the invocation before
\* the current one, and explores fewer transport outcomes per step.
SuccessiveSelectOutcomes ==
    {TransportFailure,
     [ok |-> TRUE, data |-> Resp(RESPONSE_SELECT_IN_BYTES, 111, 0, <<144, 0>>)]}

SuccessiveCertOutcomes ==
    {TransportFailure,
     [ok |-> TRUE,
      data |-> Resp(RESPONSE_GETCARDCERTIFICATE_IN_BYTES, 1, 1, <<144, 0>>)]}

SuccessiveOscOutcomes ==
    {[ok |-> TRUE,
      data |-> Resp(RESPONSE_OPENSECURECHANNEL_IN_BYTES, 200, 3, <<144, 0>>)]}

SelectOutcomesOf(s) ==
    IF s = "successive" THEN SuccessiveSelectOutcomes ELSE SelectOutcomes

CertOutcomesOf(s) ==
    IF s = "successive" THEN SuccessiveCertOutcomes ELSE CertOutcomes

OscOutcomesOf(s) ==
    IF s = "successive" THEN SuccessiveOscOutcomes ELSE OscOutcomes

\* lines 25..38: the frame is laid out (uninitialised but for ret and
\* cardCertificateLength) and driver.inListPassiveTarget() is asked.
\* The uninitialised buffers hold a fill byte or, when an earlier
\* invocation used the same stack addresses, what that one left there.
ProcessCardEntry ==
    /\ pc = "idle"
    /\ Len(results) < MaxCalls
    /\ \E junk \in JunkBytes, target \in BOOLEAN,
          leftover \in (IF prev.valid THEN BOOLEAN ELSE {FALSE}) :
        LET f == IF leftover
                 THEN prev.frame
                 ELSE FrameOf(Fill(GETCARDCERTIFICATE_IN_BYTES, junk),
                              Fill(OPENSECURECHANNEL_SALT_IN_BYTES, junk),
                              Fill(CLIENT_PRIVATE_KEY_SIZE, junk),
                              Fill(CLIENT_PUBLIC_KEY_SIZE, junk),
                              Fill(CARDEPHEMERALPUBKEY_SIZE, junk))
        IN  /\ ret' = FALSE
            /\ stackFill' = junk
            /\ cardCertificate' = f.cardCertificate
            /\ cardCertificateLength' = 0
            /\ openSecureChannelSalt' = f.openSecureChannelSalt
            /\ clientPrivateKey' = f.clientPrivateKey
            /\ clientPublicKey' = f.clientPublicKey
            /\ cardEphemeralPubKey' = f.cardEphemeralPubKey
            /\ inputsSeen' = <<Input("target", "entry", target, <<>>)>>
            /\ pc' = IF target THEN "select" ELSE "uid"
    /\ exch' = <<>>
    /\ stepRet' = NoSteps
    /\ ecdhCalls' = <<>>
    /\ extractReads' = {}
    /\ diag' = <<>>
    /\ uidReads' = 0
    /\ steps' = <<>>
    /\ UNCHANGED <<results, rngState, unitVars, study, prev>>

\* Faulty variant: a failed SELECT is sent once more.
SelectStep_Retry ==
    /\ pc = "select"
    /\ \E t \in SelectOutcomesOf(study) :
        LET r == selectApdu(t, stackFill)
        IN  /\ exch' = Append(exch, [step |-> "select", apdu |-> r.apdu, t |-> t])
            /\ stepRet' = [stepRet EXCEPT !.select = B2S(r.ret)]
            /\ diag' = diag \o Printed("select", r.diag)
            /\ inputsSeen' =
                  Append(inputsSeen, Input("transport", "select", t.ok, t.data))
            /\ pc' = IF r.ret THEN "getcert"
                     ELSE IF Len(exch) = 0 THEN "select" ELSE "return"
    /\ steps' = Append(steps, "select")
    /\ UNCHANGED <<results, rngState, frameVars, ecdhCalls, extractReads,
                   uidReads, unitVars, study, prev>>

\* line 40: if (selectApdu())
SelectStep ==
    /\ pc = "select"
    /\ \E t \in SelectOutcomesOf(study) :
        LET r == selectApdu(t, stackFill)
        IN  /\ exch' = Append(exch, [step |-> "select", apdu |-> r.apdu, t |-> t])
            /\ stepRet' = [stepRet EXCEPT !.select = B2S(r.ret)]
            /\ diag' = diag \o Printed("select", r.diag)
            /\ inputsSeen' =
                  Append(inputsSeen, Input("transport", "select", t.ok, t.data))
            /\ pc' = IF r.ret THEN "getcert" ELSE "return"
    /\ steps' = Append(steps, "select")
    /\ UNCHANGED <<results, rngState, frameVars, ecdhCalls, extractReads,
                   uidReads, unitVars, study, prev>>

\* line 42: getCardCertificate(cardCertificate, cardCertificateLength);
GetCertStep ==
    /\ pc = "getcert"
    /\ \E t \in CertOutcomesOf(study), seed \in AnalogValues :
        LET r == getCardCertificate(Ptr(cardCertificate), cardCertificateLength,
                                    rngState, seed, t, stackFill)
            drawn == randomBytes(randomSeed(rngState, seed), RANDOM_BYTES).bytes
        IN  /\ exch' = IF r.sent
                       THEN Append(exch, [step |-> "getcert", apdu |-> r.apdu, t |-> t])
                       ELSE exch
            /\ cardCertificate' = r.cardCertificate.mem
            /\ cardCertificateLength' = r.cardCertificateLength
            /\ rngState' = r.state
            /\ stepRet' = [stepRet EXCEPT !.getcert = B2S(r.ret)]
            /\ diag' = diag \o Printed("getcert", r.diag)
            /\ inputsSeen' =
                  inputsSeen \o
                  <<Input("random", "getcert", TRUE, drawn)>> \o
                  (IF r.sent
                   THEN <<Input("transport", "getcert", t.ok, t.data)>>
                   ELSE <<>>)
    /\ steps' = Append(steps, "getcert")
    /\ pc' = "extract"
    /\ UNCHANGED <<results, ret, stackFill, openSecureChannelSalt,
                   clientPrivateKey, clientPublicKey, cardEphemeralPubKey,
                   ecdhCalls, extractReads, uidReads, unitVars, study, prev>>

\* line 43: extractCardEphemeralKey(cardCertificate, cardEphemeralPubKey);
ExtractStep ==
    /\ pc = "extract"
    /\ LET r == extractCardEphemeralKey(Ptr(cardCertificate),
                                        Ptr(cardEphemeralPubKey), NullPtr)
       IN  /\ cardEphemeralPubKey' = r.key.mem
           /\ extractReads' = r.reads
           /\ stepRet' = [stepRet EXCEPT !.extract = B2S(r.ret)]
    /\ steps' = Append(steps, "extract")
    /\ pc' = "osc"
    /\ UNCHANGED <<results, rngState, ret, stackFill, cardCertificate,
                   cardCertificateLength, openSecureChannelSalt,
                   clientPrivateKey, clientPublicKey, exch, ecdhCalls, diag,
                   uidReads, inputsSeen, unitVars, study, prev>>

\* line 44: openSecureChannel(openSecureChannelSalt, clientPublicKey,
\*                            clientPrivateKey, sessionCurve);
OpenSecureChannelStep ==
    /\ pc = "osc"
    /\ \E t \in OscOutcomesOf(study), seed \in AnalogValues,
          eccSuccess \in BOOLEAN :
        LET r == openSecureChannel(openSecureChannelSalt, clientPublicKey,
                                   clientPrivateKey, rngState, seed,
                                   eccSuccess, t, stackFill)
            drawn == uECC_RNG(randomSeed(rngState, seed),
                              CLIENT_PRIVATE_KEY_SIZE).bytes
        IN  /\ exch' = IF r.sent
                       THEN Append(exch, [step |-> "osc", apdu |-> r.apdu, t |-> t])
                       ELSE exch
            /\ openSecureChannelSalt' = r.salt
            /\ clientPublicKey' = r.clientPublicKey
            /\ clientPrivateKey' = r.clientPrivateKey
            /\ rngState' = r.state
            /\ stepRet' = [stepRet EXCEPT !.osc = B2S(r.ret)]
            /\ diag' = diag \o Printed("osc", r.diag)
            /\ inputsSeen' =
                  inputsSeen \o
                  <<Input("random", "osc", TRUE, drawn),
                    Input("keygen", "osc", eccSuccess, <<>>)>> \o
                  (IF r.sent
                   THEN <<Input("transport", "osc", t.ok, t.data)>>
                   ELSE <<>>)
    /\ steps' = Append(steps, "osc")
    /\ pc' = "mutauth"
    /\ UNCHANGED <<results, ret, stackFill, cardCertificate,
                   cardCertificateLength, cardEphemeralPubKey, ecdhCalls,
                   extractReads, uidReads, unitVars, study, prev>>

\* lines 45..46: mutuallyAuthenticate(...); ret = true;
MutuallyAuthenticateStep ==
    /\ pc = "mutauth"
    /\ \E eccSharedSuccessOPC \in BOOLEAN :
        LET r == mutuallyAuthenticate(openSecureChannelSalt, clientPublicKey,
                                      clientPrivateKey, cardEphemeralPubKey,
                                      eccSharedSuccessOPC)
        IN  /\ ecdhCalls' = Append(ecdhCalls, r.ecdh)
            /\ stepRet' = [stepRet EXCEPT !.mutauth = B2S(r.ret)]
            /\ diag' = diag \o Printed("mutauth", r.diag)
            /\ inputsSeen' =
                  Append(inputsSeen,
                         Input("ecdh", "mutauth", eccSharedSuccessOPC, <<>>))
    /\ steps' = Append(steps, "mutauth")
    /\ ret' = TRUE
    /\ pc' = "return"
    /\ UNCHANGED <<results, rngState, stackFill, cardCertificate,
                   cardCertificateLength, openSecureChannelSalt,
                   clientPrivateKey, clientPublicKey, cardEphemeralPubKey,
                   exch, extractReads, uidReads, unitVars, study, prev>>

MsgCardUid == "Card UID: "

\* lines 49..62: no ISO-DEP target: driver.readUID, the UID is printed
ReadUIDStep ==
    /\ pc = "uid"
    /\ \E uidOk \in BOOLEAN :
        /\ diag' = IF uidOk THEN diag \o Printed("uid", <<MsgCardUid>>) ELSE diag
        /\ inputsSeen' = Append(inputsSeen, Input("uid", "uid", uidOk, <<>>))
    /\ uidReads' = uidReads + 1
    /\ steps' = Append(steps, "uid")
    /\ pc' = "return"
    /\ UNCHANGED <<results, rngState, frameVars, exch, stepRet, ecdhCalls,
                   extractReads, unitVars, study, prev>>

\* line 64: return ret; the frame is gone (its bytes stay on the stack)
ProcessCardReturn ==
    /\ pc = "return"
    /\ results' = Append(results, ret)
    /\ prev' = IF study = "successive"
               THEN [valid |-> TRUE, ret |-> ret, exch |-> exch,
                     stepRet |-> stepRet, ecdhCalls |-> ecdhCalls,
                     inputsSeen |-> inputsSeen,
                     frame |-> FrameOf(cardCertificate, openSecureChannelSalt,
                                       clientPrivateKey, clientPublicKey,
                                       cardEphemeralPubKey)]
               ELSE prev
    /\ pc' = "idle"
    /\ ret' = FALSE
    /\ stackFill' = 0
    /\ cardCertificate' = <<>>
    /\ cardCertificateLength' = 0
    /\ openSecureChannelSalt' = <<>>
    /\ clientPrivateKey' = <<>>
    /\ clientPublicKey' = <<>>
    /\ cardEphemeralPubKey' = <<>>
    /\ exch' = <<>>
    /\ stepRet' = NoSteps
    /\ ecdhCalls' = <<>>
    /\ extractReads' = {}
    /\ diag' = <<>>
    /\ uidReads' = 0
    /\ steps' = <<>>
    /\ inputsSeen' = <<>>
    /\ UNCHANGED <<rngState, unitVars, study>>

Next ==
    \/ ProcessCardEntry
    \/ SelectStep
    \/ GetCertStep
    \/ ExtractStep
    \/ OpenSecureChannelStep
    \/ MutuallyAuthenticateStep
    \/ ReadUIDStep
    \/ ProcessCardReturn

Spec == Init /\ [][Next]_vars

\* two or more invocations in a row, each remembered by the next
InitSuccessive == CardIdle /\ study = "successive" /\ NoUnit

SpecSuccessive == InitSuccessive /\ [][Next]_vars

(* ================================================================== *)
(* Properties of the handshake (specification Spec)                    *)
(* ================================================================== *)
\* the exchanges of the current invocation that belong to a step
ExchOf(step) == {i \in DOMAIN exch : exch[i].step = step}

\* the transport completed and the bytes received end in 90 00
EndsIn9000(t) ==
    /\ t.ok
    /\ Len(t.data) >= 2
    /\ t.data[Len(t.data) - 1] = 144
    /\ t.data[Len(t.data)] = 0

\* the 8 random bytes of a GET CERTIFICATE command (lines 151..157)
NonceOf(apdu) ==
    SubSeq(apdu, Len(GETCARDCERTIFICATE_HEADER) + 1,
           Len(GETCARDCERTIFICATE_HEADER) + RANDOM_BYTES)

\* the key generation of an invocation succeeded (line 206), by its inputs
KeyGenerated(inputs) ==
    \E i \in DOMAIN inputs : inputs[i].kind = "keygen" /\ inputs[i].ok

\* the messages a step has printed
MessagesOf(step) == {diag[i].msg : i \in {j \in DOMAIN diag : diag[j].step = step}}

(* C1: processCard returns true only if select application, get       *)
(* certificate, open secure channel and mutual authenticate all        *)
(* succeeded; if any of them fails it returns false.                   *)
C1_AllOrNothing ==
    (pc = "return" /\ ret = TRUE) =>
        /\ stepRet.select = "true"
        /\ stepRet.getcert = "true"
        /\ stepRet.osc = "true"
        /\ stepRet.mutauth = "true"

(* C2: within one call, a failed GET CERTIFICATE is followed by no     *)
(* OPEN SECURE CHANNEL APDU, and after a failed GET CERTIFICATE or     *)
(* OPEN SECURE CHANNEL no later step (key extraction, key generation,  *)
(* ECDH) is executed.                                                  *)
C2_FailedIsAbsorbing ==
    /\ stepRet.getcert = "false" =>
          /\ ExchOf("osc") = {}
          /\ stepRet.extract = "notrun"
          /\ stepRet.osc = "notrun"
          /\ stepRet.mutauth = "notrun"
    /\ stepRet.osc = "false" =>
          /\ stepRet.mutauth = "notrun"
          /\ ecdhCalls = <<>>

(* C3: if the SELECT exchange fails at the transport or its response   *)
(* does not end in 90 00, SELECT is the only command handed to the     *)
(* transport in that call and the call returns false.                  *)
SelectRejected ==
    /\ Len(exch) >= 1
    /\ exch[1].step = "select"
    /\ ~EndsIn9000(exch[1].t)

C3_SelectFailureStops ==
    SelectRejected =>
        /\ Len(exch) = 1
        /\ exch[1].apdu = SELECT_APDU
        /\ stepRet = [NoSteps EXCEPT !.select = "false"]
        /\ ecdhCalls = <<>>
        /\ pc = "return"
        /\ ret = FALSE

\* SELECT answered 6A 82: the call is about to return
C3_Witness ==
    /\ pc = "return"
    /\ SelectRejected
    /\ exch[1].t.ok
    /\ Len(exch[1].t.data) = RESPONSE_SELECT_IN_BYTES
    /\ SubSeq(exch[1].t.data, RESPONSE_SELECT_IN_BYTES - 1,
              RESPONSE_SELECT_IN_BYTES) = <<106, 130>>

(* C4: the ECDH primitive is invoked with the card's ephemeral public  *)
(* key as the peer point and the client's private key, generated in    *)
(* the open-secure-channel step of the same call, as the own scalar;   *)
(* the client public key is never used in the scalar position.         *)
C4_EcdhUsesPrivateKey ==
    \A i \in DOMAIN ecdhCalls :
        /\ ecdhCalls[i].publicArg = "cardEphemeralPubKey"
        /\ ecdhCalls[i].public_key = cardEphemeralPubKey
        /\ ecdhCalls[i].privateArg = "clientPrivateKey"
        /\ ecdhCalls[i].private_key = clientPrivateKey

(* C5: a GET CERTIFICATE response shorter than 148 bytes, even one     *)
(* ending in 90 00, is rejected: getCardCertificate returns false and  *)
(* no key extraction is attempted on it.                               *)
C5_ShortCertificateRejected ==
    \A i \in ExchOf("getcert") :
        (exch[i].t.ok /\
         Len(exch[i].t.data) < RESPONSE_GETCARDCERTIFICATE_IN_BYTES) =>
            /\ stepRet.getcert = "false"
            /\ stepRet.extract = "notrun"

(* C6: an OPEN SECURE CHANNEL response ending in 90 00 whose length is *)
(* not 34 makes openSecureChannel fail, and what it reports (the size  *)
(* message) differs from what it reports for a status-word mismatch    *)
(* (the status message).                                               *)
C6_SizeMismatchDistinct ==
    \A i \in ExchOf("osc") :
        /\ (EndsIn9000(exch[i].t) /\
            Len(exch[i].t.data) # RESPONSE_OPENSECURECHANNEL_IN_BYTES) =>
               /\ stepRet.osc = "false"
               /\ MsgBadSize \in MessagesOf("osc")
               /\ MsgBadStatus \notin MessagesOf("osc")
               /\ MsgExchangeOk \notin MessagesOf("osc")
        /\ (exch[i].t.ok /\ ~EndsIn9000(exch[i].t)) =>
               /\ stepRet.osc = "false"
               /\ MsgBadStatus \in MessagesOf("osc")
               /\ MsgBadSize \notin MessagesOf("osc")

\* a 30-byte response ending in 90 00 has been received
C6_Witness ==
    /\ pc = "mutauth"
    /\ \E i \in ExchOf("osc") :
          /\ EndsIn9000(exch[i].t)
          /\ Len(exch[i].t.data) = 30
    /\ stepRet.osc = "false"

(* C10: key extraction never reads a certificate byte at an index at   *)
(* or beyond cardCertificateLength, and when fewer than 9 + 65 bytes   *)
(* were received it reports failure and produces no key.               *)
C10_ExtractionWithinCertificate ==
    stepRet.extract # "notrun" =>
        /\ \A k \in extractReads : k < cardCertificateLength
        /\ cardCertificateLength < keyStart + fullKeyLength =>
              /\ stepRet.extract = "false"
              /\ cardEphemeralPubKey = Fill(CARDEPHEMERALPUBKEY_SIZE, stackFill)

\* an input with which the step that consumed it can succeed
GoodInput(x) ==
    LET t == [ok |-> x.ok, data |-> x.data]
    IN  CASE x.kind = "target" -> x.ok
          [] x.kind = "transport" /\ x.step = "select" -> EndsIn9000(t)
          [] x.kind = "transport" /\ x.step = "getcert" ->
                EndsIn9000(t) /\
                Len(x.data) = RESPONSE_GETCARDCERTIFICATE_IN_BYTES
          [] x.kind = "transport" /\ x.step = "osc" ->
                EndsIn9000(t) /\
                Len(x.data) = RESPONSE_OPENSECURECHANNEL_IN_BYTES
          [] x.kind = "keygen" -> x.ok
          [] x.kind = "ecdh" -> x.ok
          [] x.kind = "random" -> TRUE
          [] OTHER -> FALSE

\* the invocation is about to return and everything supplied to it was good
HappyPath ==
    /\ pc = "return"
    /\ \A i \in DOMAIN inputsSeen : GoodInput(inputsSeen[i])

(* C13: when an ISO-DEP target is present, SELECT is answered 90 00,   *)
(* GET CERTIFICATE with 148 bytes ending in 90 00, OPEN SECURE CHANNEL *)
(* with 34 bytes ending in 90 00, and key generation and ECDH          *)
(* succeed, processCard has performed select, get certificate, key     *)
(* extraction, open secure channel, mutual authenticate in that order, *)
(* the mutual authentication succeeded, and it returns true.           *)
C13_HappyPath ==
    HappyPath =>
        /\ steps = <<"select", "getcert", "extract", "osc", "mutauth">>
        /\ [i \in DOMAIN exch |-> exch[i].step] = <<"select", "getcert", "osc">>
        /\ stepRet.select = "true"
        /\ stepRet.getcert = "true"
        /\ stepRet.osc = "true"
        /\ stepRet.mutauth = "true"
        /\ Len(ecdhCalls) = 1
        /\ ret = TRUE

\* a call in which every response was good is about to return
C13_Witness ==
    /\ HappyPath
    /\ Len(exch) = 3
    /\ EndsIn9000(exch[3].t)
    /\ MsgEcdhOk \in MessagesOf("mutauth")
    /\ ret = TRUE


\* the instruction byte of a command (its second byte)
InsOf(apdu) == apdu[2]

\* SELECT, GET CERTIFICATE, OPEN SECURE CHANNEL: the order of the steps
CommandOrder ==
    <<InsOf(SELECT_APDU), InsOf(GETCARDCERTIFICATE_HEADER), InsOf(OPC_APDU_HEADER)>>

\* the position of an instruction byte in that order (0: not one of the three)
RankOf(ins) ==
    IF \E k \in DOMAIN CommandOrder : CommandOrder[k] = ins
    THEN CHOOSE k \in DOMAIN CommandOrder : CommandOrder[k] = ins
    ELSE 0

(* C16: within one call SELECT, GET CERTIFICATE and OPEN SECURE        *)
(* CHANNEL are each handed to the transport at most once and in that   *)
(* order, nothing else is sent (the mutual authentication sends no     *)
(* APDU), so a call makes at most three exchanges, whatever the        *)
(* transport reports.                                                  *)
C16_NothingRetried ==
    /\ Len(exch) <= Len(CommandOrder)
    /\ \A i \in DOMAIN exch :
          /\ RankOf(InsOf(exch[i].apdu)) # 0
          /\ exch[i].step = <<"select", "getcert", "osc">>[RankOf(InsOf(exch[i].apdu))]
    /\ \A i, j \in DOMAIN exch :
          i < j => RankOf(InsOf(exch[i].apdu)) < RankOf(InsOf(exch[j].apdu))

\* the GET CERTIFICATE exchange failed at the transport and the call is
\* about to return: three exchanges, none repeated
C16_Witness ==
    /\ pc = "return"
    /\ stepRet.mutauth # "notrun"
    /\ Len(exch) = 3
    /\ ~exch[2].t.ok
    /\ ~EndsIn9000(exch[3].t)


(* C17: every command handed to the transport is framed correctly:    *)
(* its length is 5 plus the value of its fifth byte (Lc), which is 7   *)
(* for SELECT, 8 for GET CERTIFICATE and 65 for OPEN SECURE CHANNEL.   *)
C17_ApduFraming ==
    \A i \in DOMAIN exch :
        /\ Len(exch[i].apdu) = 5 + exch[i].apdu[5]
        /\ exch[i].step = "select" => exch[i].apdu[5] = 7
        /\ exch[i].step = "getcert" => exch[i].apdu[5] = 8
        /\ exch[i].step = "osc" => exch[i].apdu[5] = 65

\* all three commands have been sent
C17_Witness ==
    /\ Len(exch) = 3
    /\ Len(exch[1].apdu) = 12
    /\ Len(exch[2].apdu) = 13
    /\ Len(exch[3].apdu) = 70


\* no ISO-DEP target was found and the invocation is about to return
NoTargetReturn ==
    /\ pc = "return"
    /\ inputsSeen # <<>>
    /\ inputsSeen[1].kind = "target"
    /\ ~inputsSeen[1].ok

(* C19: when no ISO-DEP target is detected, processCard sends no APDU, *)
(* reads the UID exactly once, and returns true exactly if the UID was *)
(* read and printed.                                                   *)
C19_UidFallback ==
    NoTargetReturn =>
        /\ exch = <<>>
        /\ uidReads = 1
        /\ ret = (MsgCardUid \in MessagesOf("uid"))


\* the fields of the certificate that the handshake does not use
\* (layout: lines 380..386): C index 0 is the format tag, 1..8 the
\* nonce, 9..73 the session public key, 74 onward the signature
UnusedFields == {"tag", "nonce", "signature"}

\* C index c of a response of length n lies in one of the fields fs
\* (the last two bytes are the status word, in no field)
InFields(c, n, fs) ==
    /\ c < n - RESPONSE_STATUS_WORDS_IN_BYTES
    /\ \/ "tag" \in fs /\ c = 0
       \/ "nonce" \in fs /\ c >= 1 /\ c < keyStart
       \/ "signature" \in fs /\ c >= keyStart + fullKeyLength

\* the transport outcome t with every byte of the fields fs changed
Vary(t, fs) ==
    [t EXCEPT !.data =
        [k \in 1..Len(t.data) |->
            IF InFields(k - 1, Len(t.data), fs)
            THEN U8(t.data[k] + 1)
            ELSE t.data[k]]]

\* what the get-certificate and key-extraction steps of the current
\* invocation would have produced had the response been v
CertStepsOn(v) ==
    LET g == getCardCertificate(
                 Ptr(Fill(GETCARDCERTIFICATE_IN_BYTES, stackFill)), 0,
                 rngState, 0, v, stackFill)
        x == extractCardEphemeralKey(
                 g.cardCertificate,
                 Ptr(Fill(CARDEPHEMERALPUBKEY_SIZE, stackFill)), NullPtr)
    IN  [getcert |-> B2S(g.ret), extract |-> B2S(x.ret), key |-> x.key.mem]

(* C20: the certificate is accepted exactly when the transport         *)
(* completed and the response ends in 90 00; a response that differs   *)
(* only in the format tag, the nonce field or the signature gives the  *)
(* same outcome of the get-certificate step and the same card key to   *)
(* the later steps, and processCard returns true in either case.       *)
(* The comparison is made where the two steps have just run; no later  *)
(* step writes their results.                                          *)
C20_AcceptanceIgnoresNonce ==
    \A i \in ExchOf("getcert") :
        /\ stepRet.getcert = B2S(EndsIn9000(exch[i].t))
        /\ pc \in {"extract", "osc"} =>
              \A fs \in SUBSET UnusedFields :
                  LET c == CertStepsOn(Vary(exch[i].t, fs))
                  IN  /\ c.getcert = stepRet.getcert
                      /\ pc = "osc" =>
                            /\ c.extract = stepRet.extract
                            /\ c.key = cardEphemeralPubKey
        /\ pc = "return" => ret = TRUE

\* a full certificate whose nonce field is not the nonce that was sent
\* has been accepted, and the call is about to return true
C20_Witness ==
    /\ pc = "return"
    /\ ret = TRUE
    /\ \E i \in ExchOf("getcert") :
          /\ stepRet.getcert = "true"
          /\ Len(exch[i].t.data) = RESPONSE_GETCARDCERTIFICATE_IN_BYTES
          /\ SubSeq(exch[i].t.data, 2, keyStart) # NonceOf(exch[i].apdu)
          /\ Vary(exch[i].t, UnusedFields) # exch[i].t


\* openSecureChannel has run and its key generation failed (line 206)
KeyGenerationFailed ==
    /\ stepRet.osc # "notrun"
    /\ ~KeyGenerated(inputsSeen)

\* the salt buffer as processCard laid it out (line 29), never written
SaltUntouched ==
    openSecureChannelSalt = Fill(OPENSECURECHANNEL_SALT_IN_BYTES, stackFill)

(* C22: if the key generation fails in openSecureChannel, the step     *)
(* returns false, no OPEN SECURE CHANNEL command is handed to the      *)
(* transport, and the salt buffer is not written.                      *)
C22_KeyGenFailureSendsNothing ==
    KeyGenerationFailed =>
        /\ stepRet.osc = "false"
        /\ ExchOf("osc") = {}
        /\ \A i \in DOMAIN exch : InsOf(exch[i].apdu) # InsOf(OPC_APDU_HEADER)
        /\ SaltUntouched
        /\ MsgKeyGenFailed \in MessagesOf("osc")

\* the key generation has just failed
C22_Witness ==
    /\ pc = "mutauth"
    /\ KeyGenerationFailed
    /\ Len(exch) = 2


\* the conditions under which openSecureChannel succeeds (lines 206,
\* 238..240), read off what the step was given
OscShouldSucceed ==
    /\ KeyGenerated(inputsSeen)
    /\ \E i \in ExchOf("osc") :
          /\ exch[i].t.ok
          /\ EndsIn9000(exch[i].t)
          /\ Len(exch[i].t.data) = 34

(* C23: openSecureChannel returns true exactly when the key generation *)
(* succeeded, the exchange succeeded, the response ends in 90 00 and   *)
(* is exactly 34 bytes long; then the salt buffer holds the first 32   *)
(* bytes of the response, and otherwise the salt buffer is unchanged.  *)
C23_OscResultAndSalt ==
    stepRet.osc # "notrun" =>
        /\ stepRet.osc = B2S(OscShouldSucceed)
        /\ stepRet.osc = "true" =>
              \A i \in ExchOf("osc") :
                  openSecureChannelSalt = SubSeq(exch[i].t.data, 1, 32)
        /\ stepRet.osc = "false" => SaltUntouched

\* a response has been accepted and the salt buffer written
C23_Witness ==
    /\ pc = "mutauth"
    /\ stepRet.osc = "true"
    /\ ~SaltUntouched
    /\ Len(openSecureChannelSalt) = OPENSECURECHANNEL_SALT_IN_BYTES


(* C25: whenever the ECDH primitive is invoked, its inputs were made   *)
(* in the same call: the card key comes from a certificate received    *)
(* with status 90 00, and the client key buffers hold a keypair whose  *)
(* generation succeeded; it is never run on uninitialised buffers.     *)
C25_EcdhInputsInitialised ==
    ecdhCalls # <<>> =>
        /\ stepRet.getcert = "true"
        /\ \E i \in ExchOf("getcert") : EndsIn9000(exch[i].t)
        /\ KeyGenerated(inputsSeen)
        /\ \A j \in DOMAIN ecdhCalls :
              /\ ecdhCalls[j].public_key #
                    Fill(CARDEPHEMERALPUBKEY_SIZE, stackFill)
              /\ ecdhCalls[j].private_key #
                    Fill(CLIENT_PRIVATE_KEY_SIZE, stackFill)


(* ================================================================== *)
(* Properties of successive invocations (specification SpecSuccessive) *)
(* ================================================================== *)
\* the exchanges of the previous invocation that belong to a step
PrevExchOf(step) == {i \in DOMAIN prev.exch : prev.exch[i].step = step}

(* C11: the nonce placed in the GET CERTIFICATE command of an attempt  *)
(* differs from the nonce sent by the attempt before it, whatever      *)
(* analogRead(0) returned in the two attempts.                         *)
C11_NonceNeverReused ==
    \A i \in ExchOf("getcert"), j \in PrevExchOf("getcert") :
        NonceOf(exch[i].apdu) # NonceOf(prev.exch[j].apdu)

\* the command bytes handed to the transport, in order
ApdusOf(e) == [i \in DOMAIN e |-> e[i].apdu]

\* the current invocation is about to return and was supplied exactly
\* what the invocation before it was supplied
SameInputsAsPrev ==
    /\ pc = "return"
    /\ prev.valid
    /\ inputsSeen = prev.inputsSeen

(* C14: two invocations given the same target, the same transport      *)
(* responses, the same random values and the same outcomes of the      *)
(* crypto primitives send the same APDU bytes, pass the same inputs to *)
(* the ECDH primitive and return the same result.                      *)
C14_Deterministic ==
    SameInputsAsPrev =>
        /\ ApdusOf(exch) = ApdusOf(prev.exch)
        /\ ecdhCalls = prev.ecdhCalls
        /\ ret = prev.ret

\* the invocation starts with SELECT (line 40)
BeginsWithSelect ==
    (steps # <<>> /\ inputsSeen[1].ok) => steps[1] = "select"

\* the ECDH primitive is not given the card key or the client key that
\* the invocation before left in its frame: a key that this invocation
\* did not obtain itself is not the previous invocation's key
NothingLeftOverUsed ==
    \A i \in DOMAIN ecdhCalls :
        /\ (prev.valid /\ prev.stepRet.getcert = "true"
                /\ stepRet.getcert # "true") =>
              ecdhCalls[i].public_key # prev.frame.cardEphemeralPubKey
        /\ (prev.valid /\ KeyGenerated(prev.inputsSeen)
                /\ ~KeyGenerated(inputsSeen)) =>
              ecdhCalls[i].private_key #
                  SubSeq(prev.frame.clientPublicKey, 1, CLIENT_PRIVATE_KEY_SIZE)

\* whatever the invocation before did, good inputs give a handshake
LaterHandshakeSucceeds ==
    (HappyPath /\ prev.valid) =>
        /\ steps = <<"select", "getcert", "extract", "osc", "mutauth">>
        /\ stepRet.mutauth = "true"
        /\ ret = TRUE

(* C15: every invocation is a new session: it begins with SELECT, it   *)
(* uses no certificate, card key or client key left over from the      *)
(* invocation before, and a failed invocation does not keep a later    *)
(* one from succeeding.                                                *)
C15_FreshSession ==
    /\ BeginsWithSelect
    /\ NothingLeftOverUsed
    /\ LaterHandshakeSucceeds


\* the random bytes drawn by a step of the current invocation
DrawnBy(step) ==
    LET i == CHOOSE k \in DOMAIN inputsSeen :
                 inputsSeen[k].kind = "random" /\ inputsSeen[k].step = step
    IN  inputsSeen[i].data

(* C18: the OPEN SECURE CHANNEL command is the 70 bytes                *)
(* 80 10 FF 00 41 04 followed by the 64-byte public key of the keypair *)
(* generated earlier in the same openSecureChannel call (its private   *)
(* key is the 32 bytes just drawn), and that keypair is what the       *)
(* caller's two key buffers hold for the mutual authentication.        *)
C18_OscCarriesGeneratedKey ==
    \A i \in ExchOf("osc") :
        /\ Len(exch[i].apdu) = 70
        /\ SubSeq(exch[i].apdu, 1, 6) = <<128, 16, 255, 0, 65, 4>>
        /\ SubSeq(exch[i].apdu, 7, 70) = PublicKeyOf(DrawnBy("osc"))
        /\ clientPrivateKey = DrawnBy("osc")
        /\ clientPublicKey = PublicKeyOf(DrawnBy("osc"))

\* the command has been sent and the mutual authentication is next, in
\* an invocation that follows one which generated a keypair of its own
C18_Witness ==
    /\ pc = "mutauth"
    /\ prev.valid
    /\ KeyGenerated(prev.inputsSeen)
    /\ clientPublicKey # prev.frame.clientPublicKey
    /\ ExchOf("osc") # {}
    /\ clientPublicKey # Fill(CLIENT_PUBLIC_KEY_SIZE, stackFill)
    /\ \A i \in ExchOf("osc") : SubSeq(exch[i].apdu, 7, 70) = clientPublicKey

(* ================================================================== *)
(* Unit specification of checkStatusWord: the arguments are drawn in   *)
(* the initial state, the one action applies the function.             *)
(* ================================================================== *)
\* b with bit k inverted
FlipBit(b, k) == IF (b \div (2 ^ k)) % 2 = 1 THEN b - 2 ^ k ELSE b + 2 ^ k

\* 90, 00 and every single-bit change of either
StatusBytes ==
    {144, 0} \cup {FlipBit(144, k) : k \in 0..7} \cup {FlipBit(0, k) : k \in 0..7}

PrefixBytes == {144, 0, 23}

StatusBuffers ==
    UNION {[1..n -> StatusBytes] : n \in 0..2} \cup
    {p \o tr : p \in UNION {[1..m -> PrefixBytes] : m \in 1..(MaxStatusLen - 2)},
               tr \in [1..2 -> StatusBytes]}

ExpectedStatus == {<<144, 0>>, <<0, 144>>}

InitStatus ==
    /\ CardIdle
    /\ study = "handshake"
    /\ NoCert
    /\ NoExchange
    /\ NoSketch
    /\ exArgs = [cardCertificate |-> NullPtr, cardEphemeralPubKey |-> NullPtr,
                 fullEphemeralKey65 |-> NullPtr]
    /\ exResult = [done |-> FALSE, ret |-> FALSE, key |-> NullPtr,
                   full |-> NullPtr, cert |-> NullPtr, reads |-> {}]
    /\ csResult = [done |-> FALSE, ret |-> FALSE, reads |-> {}]
    /\ \E buf \in StatusBuffers, isNull \in BOOLEAN, e \in ExpectedStatus :
         \E n \in 0..Len(buf) :
            csArgs = [response |-> IF isNull THEN NullPtr ELSE Ptr(buf),
                      responseLength |-> n,
                      sw1Expected |-> e[1], sw2Expected |-> e[2]]

CheckStatusWordCall ==
    /\ ~csResult.done
    /\ LET r == checkStatusWordRun(csArgs.response, csArgs.responseLength,
                                   csArgs.sw1Expected, csArgs.sw2Expected)
       IN  csResult' = [done |-> TRUE, ret |-> r.ret, reads |-> r.reads]
    /\ UNCHANGED <<cardVars, csArgs, exArgs, exResult, certVars, exchangeVars,
                   sketchVars>>

NextStatus == CheckStatusWordCall

SpecStatus == InitStatus /\ [][NextStatus]_vars

(* C7: for a response of length >= 2, checkStatusWord returns true    *)
(* iff the byte at index length-2 equals sw1 and the byte at index     *)
(* length-1 equals sw2; with expected (0x90, 0x00) any single-bit      *)
(* change of either trailing byte gives false; bytes before the        *)
(* trailer do not affect the result.                                   *)
C7_StatusWordIffTrailer ==
    (csResult.done /\ ~csArgs.response.null /\ csArgs.responseLength >= 2) =>
        LET mem == csArgs.response.mem
            n == csArgs.responseLength
            t1 == mem[(n - 2) + 1]
            t2 == mem[(n - 1) + 1]
        IN  /\ csResult.ret <=>
                  (t1 = csArgs.sw1Expected /\ t2 = csArgs.sw2Expected)
            /\ (/\ csArgs.sw1Expected = 144
                /\ csArgs.sw2Expected = 0
                /\ \E k \in 0..7 : \/ (t1 = FlipBit(144, k) /\ t2 = 0)
                                   \/ (t1 = 144 /\ t2 = FlipBit(0, k)))
                   => csResult.ret = FALSE
            /\ \A c \in 0..(n - 3), v \in PrefixBytes :
                  checkStatusWord(Ptr([mem EXCEPT ![c + 1] = v]), n,
                                  csArgs.sw1Expected, csArgs.sw2Expected)
                      = csResult.ret

\* a three-byte response ending in 90 00 was accepted
C7_Witness ==
    /\ csResult.done
    /\ csResult.ret = TRUE
    /\ ~csArgs.response.null
    /\ csArgs.responseLength = 3
    /\ csArgs.sw1Expected = 144
    /\ csArgs.sw2Expected = 0

(* C8: with a null response or a responseLength of 0 or 1,            *)
(* checkStatusWord returns false and reads no byte of the response;    *)
(* in every call the indices read lie within 0..responseLength-1.      *)
C8_ShortResponseNotRead ==
    csResult.done =>
        /\ (csArgs.response.null \/ csArgs.responseLength < 2) =>
              /\ csResult.ret = FALSE
              /\ csResult.reads = {}
        /\ \A c \in csResult.reads : 0 <= c /\ c < csArgs.responseLength

\* a one-byte response, holding 0x90, was rejected
C8_Witness ==
    /\ csResult.done
    /\ ~csArgs.response.null
    /\ csArgs.responseLength = 1
    /\ csArgs.response.mem[1] = 144
    /\ csResult.ret = FALSE

(* ================================================================== *)
(* Unit specification of extractCardEphemeralKey                       *)
(* ================================================================== *)
CertificateBuffers ==
    {Pattern(n, a, b) :
        n \in (74..(74 + ExtraCertBytes)) \cup {GETCARDCERTIFICATE_IN_BYTES},
        a \in {4, 67}, b \in {1, 3}}

InitExtract ==
    /\ CardIdle
    /\ study = "handshake"
    /\ NoCert
    /\ NoExchange
    /\ NoSketch
    /\ csArgs = [response |-> NullPtr, responseLength |-> 0,
                 sw1Expected |-> 0, sw2Expected |-> 0]
    /\ csResult = [done |-> FALSE, ret |-> FALSE, reads |-> {}]
    /\ exResult = [done |-> FALSE, ret |-> FALSE, key |-> NullPtr,
                   full |-> NullPtr, cert |-> NullPtr, reads |-> {}]
    /\ \E cert \in {NullPtr} \cup {Ptr(m) : m \in CertificateBuffers},
          key \in {NullPtr} \cup
                  {Ptr(Fill(n, j)) : n \in {trimmedKeyLength, trimmedKeyLength + 2},
                                     j \in JunkBytes},
          full \in {NullPtr} \cup {Ptr(Fill(fullKeyLength, j)) : j \in JunkBytes} :
         exArgs = [cardCertificate |-> cert, cardEphemeralPubKey |-> key,
                   fullEphemeralKey65 |-> full]

ExtractCall ==
    /\ ~exResult.done
    /\ LET r == extractCardEphemeralKey(exArgs.cardCertificate,
                                        exArgs.cardEphemeralPubKey,
                                        exArgs.fullEphemeralKey65)
       IN  exResult' = [done |-> TRUE, ret |-> r.ret, key |-> r.key,
                        full |-> r.full, cert |-> r.cert, reads |-> r.reads]
    /\ UNCHANGED <<cardVars, csArgs, csResult, exArgs, certVars, exchangeVars,
                   sketchVars>>

NextExtract == ExtractCall

SpecExtract == InitExtract /\ [][NextExtract]_vars

(* C9: for a certificate of at least 74 bytes, the 64-byte output     *)
(* receives exactly certificate bytes 10..73 in order, the optional    *)
(* 65-byte output, when supplied, exactly bytes 9..73, and the         *)
(* certificate is left unchanged.                                      *)
C9_KeyBytesExtracted ==
    (/\ exResult.done
     /\ ~exArgs.cardCertificate.null
     /\ ~exArgs.cardEphemeralPubKey.null
     /\ Len(exArgs.cardCertificate.mem) >= 74) =>
        LET cert == exArgs.cardCertificate.mem
            key0 == exArgs.cardEphemeralPubKey.mem
        IN  /\ ~exResult.key.null
            /\ Len(exResult.key.mem) = Len(key0)
            /\ \A c \in 0..(Len(key0) - 1) :
                  exResult.key.mem[c + 1] =
                      IF c < 64 THEN cert[(10 + c) + 1] ELSE key0[c + 1]
            /\ exArgs.fullEphemeralKey65.null => exResult.full.null
            /\ ~exArgs.fullEphemeralKey65.null =>
                  /\ ~exResult.full.null
                  /\ exResult.full.mem = SubSeq(cert, 9 + 1, 73 + 1)
            /\ exResult.cert = exArgs.cardCertificate
            /\ exResult.reads = 9..73

\* both outputs were supplied and filled from a 74-byte certificate
C9_Witness ==
    /\ exResult.done
    /\ ~exArgs.cardCertificate.null
    /\ Len(exArgs.cardCertificate.mem) = 74
    /\ ~exArgs.cardEphemeralPubKey.null
    /\ ~exArgs.fullEphemeralKey65.null
    /\ exResult.key.mem # exArgs.cardEphemeralPubKey.mem
    /\ exResult.full.mem[1] = exArgs.cardCertificate.mem[10]

(* C26: extractCardEphemeralKey returns false only for invalid input   *)
(* (a null certificate pointer or a null output pointer) and returns   *)
(* true whenever both are non-null and the key bytes were copied.      *)
C26_ExtractReturnValue ==
    exResult.done =>
        (exResult.ret = FALSE) =
            (exArgs.cardCertificate.null \/ exArgs.cardEphemeralPubKey.null)

(* ================================================================== *)
(* Unit specification of getCardCertificate: the arguments and the     *)
(* transport's answer are drawn in the initial state, the one action   *)
(* applies the function.                                               *)
(* ================================================================== *)
\* every length the 148-byte response buffer can hold (lines 134..135)
CertResponseLengths == 0..RESPONSE_GETCARDCERTIFICATE_IN_BYTES

CertResponses ==
    {TransportFailure} \cup
    {[ok |-> TRUE, data |-> Resp(len, 1, 1, sw)] :
        len \in CertResponseLengths, sw \in StatusWords}

InitCert ==
    /\ CardIdle
    /\ study = "handshake"
    /\ NoHelper
    /\ NoExchange
    /\ NoSketch
    /\ gcResult = [done |-> FALSE, ret |-> FALSE, cardCertificate |-> NullPtr,
                   cardCertificateLength |-> 0]
    /\ \E t \in CertResponses, j \in JunkBytes, isNull \in BOOLEAN,
          n \in {0, RANDOM_BYTES} :
         gcArgs = [cardCertificate |->
                       IF isNull THEN NullPtr
                       ELSE Ptr(Fill(GETCARDCERTIFICATE_IN_BYTES, j)),
                   cardCertificateLength |-> n,
                   t |-> t, junk |-> j]

CertCall ==
    /\ ~gcResult.done
    /\ \E seed \in AnalogValues :
        LET r == getCardCertificate(gcArgs.cardCertificate,
                                    gcArgs.cardCertificateLength,
                                    rngState, seed, gcArgs.t, gcArgs.junk)
        IN  gcResult' = [done |-> TRUE, ret |-> r.ret,
                         cardCertificate |-> r.cardCertificate,
                         cardCertificateLength |-> r.cardCertificateLength]
    /\ UNCHANGED <<cardVars, csArgs, csResult, exArgs, exResult, gcArgs,
                   exchangeVars, sketchVars>>

NextCert == CertCall

SpecCert == InitCert /\ [][NextCert]_vars

ExchangeAnswers == {"failure", "accepted", "rejected"}

\* an entry of the wire log
WireEvent(ev, step, answer) == [ev |-> ev, step |-> step, answer |-> answer]

\* the steps that call driver.sendAPDU, and where each waits
SendingSteps == {"select", "getcert", "osc"}
WaitOf(step) == step \o ":wait"

\* where processCard goes when the step's exchange has been answered
\* (lines 40..45: only a failed selectApdu stops the call)
AfterAnswer(step, answer) ==
    CASE step = "select" -> IF answer = "accepted" THEN "getcert" ELSE "return"
      [] step = "getcert" -> "osc"
      [] step = "osc" -> "mutauth"

InitExchange ==
    /\ CardIdle
    /\ study = "handshake"
    /\ NoHelper
    /\ NoCert
    /\ NoSketch
    /\ xpc = "idle"
    /\ wire = <<>>
    /\ outstanding = 0
    /\ xdone = 0

\* line 38: driver.inListPassiveTarget()
ExchangeEntry ==
    /\ xpc = "idle"
    /\ xdone < MaxCalls
    /\ \E target \in BOOLEAN : xpc' = IF target THEN "select" ELSE "uid"
    /\ UNCHANGED <<wire, outstanding, xdone>>

\* Faulty variant: the caller goes on without waiting for the answer.
HandCommand_NoWait ==
    /\ xpc \in SendingSteps
    /\ wire' = Append(wire, WireEvent("command", xpc, ""))
    /\ outstanding' = outstanding + 1
    /\ xpc' = AfterAnswer(xpc, "accepted")
    /\ UNCHANGED xdone

\* driver.sendAPDU is called: the command goes to nfc.inDataExchange
\* (PN532I2C.cpp 70) and the step waits for it to return
HandCommand ==
    /\ xpc \in SendingSteps
    /\ wire' = Append(wire, WireEvent("command", xpc, ""))
    /\ outstanding' = outstanding + 1
    /\ xpc' = WaitOf(xpc)
    /\ UNCHANGED xdone

\* nfc.inDataExchange returns (PN532I2C.cpp 77..93) and the step ends
ReceiveAnswer ==
    /\ \E step \in SendingSteps, answer \in ExchangeAnswers :
        /\ xpc = WaitOf(step)
        /\ wire' = Append(wire, WireEvent("answer", step, answer))
        /\ xpc' = AfterAnswer(step, answer)
    /\ outstanding' = outstanding - 1
    /\ UNCHANGED xdone

\* openSecureChannel, lines 206..210: uECC_make_key fails, nothing is sent
KeyGenerationFails ==
    /\ xpc = "osc"
    /\ xpc' = "mutauth"
    /\ UNCHANGED <<wire, outstanding, xdone>>

\* mutuallyAuthenticate (line 45) and the UID branch (lines 49..62) make
\* no driver.sendAPDU call
StepWithoutExchange ==
    /\ xpc \in {"mutauth", "uid"}
    /\ xpc' = "return"
    /\ UNCHANGED <<wire, outstanding, xdone>>

\* line 64
ExchangeReturn ==
    /\ xpc = "return"
    /\ xpc' = "idle"
    /\ xdone' = xdone + 1
    /\ UNCHANGED <<wire, outstanding>>

NextExchange ==
    /\ \/ ExchangeEntry
       \/ HandCommand
       \/ ReceiveAnswer
       \/ KeyGenerationFails
       \/ StepWithoutExchange
       \/ ExchangeReturn
    /\ UNCHANGED <<cardVars, csArgs, csResult, exArgs, exResult, certVars,
                   sketchVars>>

SpecExchange == InitExchange /\ [][NextExchange]_vars

\* how many entries of the wire log are of a kind
CountOf(ev) == Cardinality({i \in DOMAIN wire : wire[i].ev = ev})

(* C21: at most one exchange is outstanding at any time: a command is  *)
(* handed to the transport only when every earlier command has been    *)
(* answered (by a response or a failure).                              *)
C21_OneOutstandingExchange ==
    /\ outstanding \in {0, 1}
    /\ outstanding = CountOf("command") - CountOf("answer")
    /\ \A i \in DOMAIN wire :
          wire[i].ev = "command" =>
              \/ i = 1
              \/ wire[i - 1].ev = "answer"
    /\ \A i \in DOMAIN wire :
          wire[i].ev = "answer" =>
              /\ i > 1
              /\ wire[i - 1] = WireEvent("command", wire[i].step, "")

\* the third command of a call is outstanding after two answered ones,
\* one of them a transport failure
C21_Witness ==
    /\ xpc = WaitOf("osc")
    /\ outstanding = 1
    /\ Len(wire) = 5
    /\ wire[4].answer = "failure"

(* ================================================================== *)
(* The example sketches: examples.ino and main.ino.  setup() starts    *)
(* the module through PN532I2C::begin and, when that fails, stays in   *)
(* "while (1);" (examples.ino line 30, main.ino line 47: an empty loop *)
(* the toolchain compiles to a jump to itself); loop() polls for a     *)
(* card.  devLog lists the calls made to the module, in order.         *)
(* ================================================================== *)
\* iterations of loop() that are followed
MaxPolls == 2

Sketches == {"examples.ino", "main.ino"}

\* what nfc.getFirmwareVersion() may return: 0 when the module does not
\* answer, else a 32-bit version word (0x32010607 for a PN532 v1.6)
FirmwareVersions == {0, 1, 838927879}

\* a call to the module and what it returned (TRUE for a void call)
Op(op, r) == [op |-> op, ret |-> r]

\* PN532I2C::getFirmwareVersion, PN532I2C.cpp lines 53..56
getFirmwareVersion(version) ==
    [version |-> version,
     ret |-> version # 0,
     ops |-> <<Op("getFirmwareVersion", version # 0)>>]

\* Faulty variant: the module is configured before the version is tested.
begin_SamConfigBeforeCheck(version) ==
    LET fw == getFirmwareVersion(version)
    IN  [versiondata |-> fw.version,
         ret |-> fw.ret,
         ops |-> <<Op("begin", TRUE)>> \o fw.ops \o <<Op("SAMConfig", TRUE)>>]

\* PN532I2C::begin, PN532I2C.cpp lines 22..34; version is the word the
\* module answers with
begin(version) ==
    LET fw == getFirmwareVersion(version)
    IN  IF ~fw.ret
        THEN [versiondata |-> fw.version,
              ret |-> FALSE,
              ops |-> <<Op("begin", TRUE)>> \o fw.ops]
        ELSE [versiondata |-> fw.version,
              ret |-> TRUE,
              ops |-> <<Op("begin", TRUE)>> \o fw.ops
                          \o <<Op("SAMConfig", TRUE)>>]

\* the body of loop(): examples.ino lines 76..83 (sendTestAPDU makes one
\* exchange, line 60), main.ino lines 165..173 (selectApdu and
\* getCardCertificate make one exchange each, whatever the first one gave)
loop(s, target, first, second) ==
    IF target
    THEN <<Op("inListPassiveTarget", TRUE), Op("sendAPDU", first)>>
            \o (IF s = "main.ino" THEN <<Op("sendAPDU", second)>> ELSE <<>>)
    ELSE <<Op("inListPassiveTarget", FALSE), Op("readUID", first)>>

InitSketch ==
    /\ CardIdle
    /\ study = "handshake"
    /\ NoHelper
    /\ NoCert
    /\ NoExchange
    /\ sketch \in Sketches
    /\ spc = "setup"
    /\ versiondata = 0
    /\ beginRet = FALSE
    /\ devLog = <<>>
    /\ polls = 0

\* Faulty variant: setup() goes on to loop() whatever begin returned.
setup_NoHalt ==
    /\ spc = "setup"
    /\ \E version \in FirmwareVersions, fw \in FirmwareVersions :
        LET b == begin(version)
        IN  /\ versiondata' = b.versiondata
            /\ beginRet' = b.ret
            /\ devLog' = b.ops \o getFirmwareVersion(fw).ops
            /\ spc' = "loop"
    /\ UNCHANGED <<sketch, polls>>

\* setup(): examples.ino lines 20..47, main.ino lines 39..64
setup ==
    /\ spc = "setup"
    /\ \E version \in FirmwareVersions, fw \in FirmwareVersions :
        LET b == begin(version)
        IN  /\ versiondata' = b.versiondata
            /\ beginRet' = b.ret
            /\ IF ~b.ret
               THEN /\ devLog' = b.ops
                    /\ spc' = "halted"
               ELSE /\ devLog' = b.ops \o getFirmwareVersion(fw).ops
                    /\ spc' = "loop"
    /\ UNCHANGED <<sketch, polls>>

\* one iteration of loop(): examples.ino lines 72..86, main.ino 161..176
loopIteration ==
    /\ spc = "loop"
    /\ polls < MaxPolls
    /\ \E target \in BOOLEAN, first \in BOOLEAN, second \in BOOLEAN :
        devLog' = devLog \o loop(sketch, target, first, second)
    /\ polls' = polls + 1
    /\ UNCHANGED <<sketch, spc, versiondata, beginRet>>

NextSketch ==
    /\ \/ setup
       \/ loopIteration
    /\ UNCHANGED <<cardVars, csArgs, csResult, exArgs, exResult, certVars,
                   exchangeVars>>

SpecSketch == InitSketch /\ [][NextSketch]_vars

\* the places of the log where a call was made
CallsOf(op) == {i \in DOMAIN devLog : devLog[i].op = op}

\* begin has returned
BeginReturned == spc # "setup"

(* C27: PN532I2C::begin returns true exactly when the firmware version *)
(* read from the module is not zero, and SAMConfig is issued only then, *)
(* after the version was read.                                          *)
C27_BeginResult ==
    BeginReturned =>
        /\ beginRet = (versiondata # 0)
        /\ (CallsOf("SAMConfig") # {}) = (versiondata # 0)
        /\ \A i \in CallsOf("SAMConfig") :
              /\ i = 3
              /\ devLog[2] = Op("getFirmwareVersion", TRUE)

\* begin has returned false on a module that answered 0 to the one
\* version read
C27_Witness ==
    /\ BeginReturned
    /\ versiondata = 0
    /\ ~beginRet
    /\ CallsOf("getFirmwareVersion") = {2}

\* the calls that detect a card, read its UID or exchange an APDU
CardCalls ==
    CallsOf("inListPassiveTarget") \cup CallsOf("readUID")
        \cup CallsOf("sendAPDU")

\* begin returned false
BeginFailed == BeginReturned /\ ~beginRet

(* C28: when begin returns false the sketch stays in setup() for ever   *)
(* and never detects a card, reads a UID or exchanges an APDU; loop()   *)
(* polls only after begin returned true.                                *)
C28_HaltsAfterFailedBegin ==
    /\ [](BeginFailed => spc = "halted" /\ CardCalls = {} /\ polls = 0)
    /\ [](CardCalls # {} \/ polls > 0 => BeginReturned /\ beginRet)
    /\ [][BeginFailed => UNCHANGED sketchVars]_vars

\* the sketch has halted after a failed begin
C28_Witness ==
    /\ BeginFailed
    /\ spc = "halted"
    /\ devLog = <<Op("begin", TRUE), Op("getFirmwareVersion", FALSE)>>

====
